---- MODULE Spec2Model ----
(***************************************************************************)
(* Model of MaxDetector (src/src/lib.rs): the maximum of the last          *)
(* buffer_size values of a stream, kept in a deque of candidates.          *)
(*                                                                         *)
(* The deque is a sequence whose element 1 is the FRONT and whose last     *)
(* element is the BACK.  A value of the generic type F is a record         *)
(* [key, tag]: PartialOrd compares the key only (as the test fixture       *)
(* StringStruct compares the length only), the tag is the rest of the      *)
(* payload and tells two values of equal order apart.                      *)
(***************************************************************************)
EXTENDS Integers, Sequences, FiniteSets

\* ---- bounds of the model ----
MaxBuf == 4          \* buffer_size ranges over 0..MaxBuf
MaxKey == 3          \* keys of the values range over 1..MaxKey
MaxCalls == 6        \* calls of next per run
MaxCurrents == 2     \* calls of current between two calls of next

VARIABLES deque, buffer_size, next_index, \* the fields of MaxDetector
          ret,      \* the value returned by the last call of next
          cur,      \* the Option returned by the last call of current
          fault,    \* where the last call of next panicked, or "none"
          hist,     \* every value passed to next, in order
          pushes,   \* elements inserted into the deque so far
          pops,     \* elements removed from the deque so far
          currents  \* calls of current since the last call of next

vars == <<deque, buffer_size, next_index, ret, cur, fault, hist, pushes, pops, currents>>

\* ---- values and options ----
NoValue == [key |-> 0, tag |-> 0]
None == [some |-> FALSE, value |-> NoValue]
Some(v) == [some |-> TRUE, value |-> v]

\* BufferElement { index, value }
BufferElement(i, v) == [index |-> i, value |-> v]

\* ---- VecDeque operations ----
Front(d) == d[1]
Back(d) == d[Len(d)]
PopBack(d) == SubSeq(d, 1, Len(d) - 1)
PopFront(d) == SubSeq(d, 2, Len(d))
PushBack(d, e) == Append(d, e)
PushFront(d, e) == <<e>> \o d

\* ---- PartialOrd of F: the order is the order of the keys ----
\* <= read the wrong way round
LeReversed(a, b) == a.key >= b.key
Le(a, b) == a.key <= b.key
Ge(a, b) == a.key >= b.key

\* MaxDetector::new
new(n) == [deque |-> <<>>, buffer_size |-> n, next_index |-> 0]

\* next, lines 43-45: the back is popped when it holds the slot about to be reused.
\* The result carries the number of elements removed.
ExpireBackNever(d, ni) == [deque |-> d, removed |-> 0]
ExpireBack(d, ni) ==
    IF d # <<>> /\ Back(d).index = ni
    THEN [deque |-> PopBack(d), removed |-> 1]
    ELSE [deque |-> d, removed |-> 0]

\* next, lines 64-66: while value >= front.value, pop the front.
\* front().unwrap() panics on an empty deque.
RECURSIVE PopFrontWhile(_, _, _)
PopFrontWhile(d, v, n) ==
    IF d = <<>> THEN [deque |-> d, removed |-> n, fault |-> "front_unwrap"]
    ELSE IF Ge(v, Front(d).value) THEN PopFrontWhile(PopFront(d), v, n + 1)
    ELSE [deque |-> d, removed |-> n, fault |-> "none"]

\* The loop of lines 64-66 with > in place of >=.
RECURSIVE PopFrontWhileStrict(_, _, _)
PopFrontWhileStrict(d, v, n) ==
    IF d = <<>> THEN [deque |-> d, removed |-> n, fault |-> "front_unwrap"]
    ELSE IF v.key > Front(d).value.key THEN PopFrontWhileStrict(PopFront(d), v, n + 1)
    ELSE [deque |-> d, removed |-> n, fault |-> "none"]

\* Variants of InsertValue, each with one slip in lines 46-71.
InsertValueStrictBranch(d, ni, v) ==
    \* line 51 with < in place of <=
    IF d = <<>> THEN
        [deque |-> PushBack(d, BufferElement(ni, v)), removed |-> 0,
         pushed |-> 1, fault |-> "none"]
    ELSE IF Back(d).value.key < v.key THEN
        [deque |-> PushBack(<<>>, BufferElement(ni, v)), removed |-> Len(d),
         pushed |-> 1, fault |-> "none"]
    ELSE
        LET w == PopFrontWhile(d, v, 0) IN
        IF w.fault # "none"
        THEN [deque |-> w.deque, removed |-> w.removed, pushed |-> 0, fault |-> w.fault]
        ELSE [deque |-> PushFront(w.deque, BufferElement(ni, v)),
              removed |-> w.removed, pushed |-> 1, fault |-> "none"]

InsertValueKeepOldest(d, ni, v) ==
    \* ties broken towards the older element: < at line 51 and > at line 64
    IF d = <<>> THEN
        [deque |-> PushBack(d, BufferElement(ni, v)), removed |-> 0,
         pushed |-> 1, fault |-> "none"]
    ELSE IF Back(d).value.key < v.key THEN
        [deque |-> PushBack(<<>>, BufferElement(ni, v)), removed |-> Len(d),
         pushed |-> 1, fault |-> "none"]
    ELSE
        LET w == PopFrontWhileStrict(d, v, 0) IN
        IF w.fault # "none"
        THEN [deque |-> w.deque, removed |-> w.removed, pushed |-> 0, fault |-> w.fault]
        ELSE [deque |-> PushFront(w.deque, BufferElement(ni, v)),
              removed |-> w.removed, pushed |-> 1, fault |-> "none"]

InsertValueNoClear(d, ni, v) ==
    \* line 54 (deque.clear()) left out
    IF d = <<>> THEN
        [deque |-> PushBack(d, BufferElement(ni, v)), removed |-> 0,
         pushed |-> 1, fault |-> "none"]
    ELSE IF Le(Back(d).value, v) THEN
        [deque |-> PushBack(d, BufferElement(ni, v)), removed |-> 0,
         pushed |-> 1, fault |-> "none"]
    ELSE
        LET w == PopFrontWhile(d, v, 0) IN
        IF w.fault # "none"
        THEN [deque |-> w.deque, removed |-> w.removed, pushed |-> 0, fault |-> w.fault]
        ELSE [deque |-> PushFront(w.deque, BufferElement(ni, v)),
              removed |-> w.removed, pushed |-> 1, fault |-> "none"]

InsertValueDoublePush(d, ni, v) ==
    \* the new element pushed a second time in the else branch
    IF d = <<>> THEN
        [deque |-> PushBack(d, BufferElement(ni, v)), removed |-> 0,
         pushed |-> 1, fault |-> "none"]
    ELSE IF Le(Back(d).value, v) THEN
        [deque |-> PushBack(<<>>, BufferElement(ni, v)), removed |-> Len(d),
         pushed |-> 1, fault |-> "none"]
    ELSE
        LET w == PopFrontWhile(d, v, 0) IN
        IF w.fault # "none"
        THEN [deque |-> w.deque, removed |-> w.removed, pushed |-> 0, fault |-> w.fault]
        ELSE [deque |-> PushFront(PushFront(w.deque, BufferElement(ni, v)),
                                  BufferElement(ni, v)),
              removed |-> w.removed, pushed |-> 2, fault |-> "none"]

InsertValueNoFrontPop(d, ni, v) ==
    \* the loop of lines 64-66 left out
    IF d = <<>> THEN
        [deque |-> PushBack(d, BufferElement(ni, v)), removed |-> 0,
         pushed |-> 1, fault |-> "none"]
    ELSE IF Le(Back(d).value, v) THEN
        [deque |-> PushBack(<<>>, BufferElement(ni, v)), removed |-> Len(d),
         pushed |-> 1, fault |-> "none"]
    ELSE
        [deque |-> PushFront(d, BufferElement(ni, v)), removed |-> 0,
         pushed |-> 1, fault |-> "none"]

InsertValueStrictLoop(d, ni, v) ==
    \* line 64 with > in place of >=
    IF d = <<>> THEN
        [deque |-> PushBack(d, BufferElement(ni, v)), removed |-> 0,
         pushed |-> 1, fault |-> "none"]
    ELSE IF Le(Back(d).value, v) THEN
        [deque |-> PushBack(<<>>, BufferElement(ni, v)), removed |-> Len(d),
         pushed |-> 1, fault |-> "none"]
    ELSE
        LET w == PopFrontWhileStrict(d, v, 0) IN
        IF w.fault # "none"
        THEN [deque |-> w.deque, removed |-> w.removed, pushed |-> 0, fault |-> w.fault]
        ELSE [deque |-> PushFront(w.deque, BufferElement(ni, v)),
              removed |-> w.removed, pushed |-> 1, fault |-> "none"]

\* next, lines 46-71: the three branches that insert the new element.
InsertValue(d, ni, v) ==
    IF d = <<>> THEN
        [deque |-> PushBack(d, BufferElement(ni, v)), removed |-> 0,
         pushed |-> 1, fault |-> "none"]
    ELSE IF Le(Back(d).value, v) THEN
        \* clear() removes every element
        [deque |-> PushBack(<<>>, BufferElement(ni, v)), removed |-> Len(d),
         pushed |-> 1, fault |-> "none"]
    ELSE
        LET w == PopFrontWhile(d, v, 0) IN
        IF w.fault # "none"
        THEN [deque |-> w.deque, removed |-> w.removed, pushed |-> 0, fault |-> w.fault]
        ELSE [deque |-> PushFront(w.deque, BufferElement(ni, v)),
              removed |-> w.removed, pushed |-> 1, fault |-> "none"]

\* next, line 73: (next_index + 1) % buffer_size panics when buffer_size is 0.
AdvanceIndexGuarded(ni, bs) ==
    IF bs = 0 THEN [index |-> 0, fault |-> "none"]
    ELSE [index |-> (ni + 1) % bs, fault |-> "none"]
AdvanceIndexNoWrap(ni, bs) ==
    IF bs = 0 THEN [index |-> ni, fault |-> "rem_zero"]
    ELSE [index |-> ni + 1, fault |-> "none"]
AdvanceIndex(ni, bs) ==
    IF bs = 0 THEN [index |-> ni, fault |-> "rem_zero"]
    ELSE [index |-> (ni + 1) % bs, fault |-> "none"]

\* next, line 75: deque.back().unwrap().value
ReturnFront(d) ==
    IF d = <<>> THEN [value |-> NoValue, fault |-> "back_unwrap"]
    ELSE [value |-> Front(d).value, fault |-> "none"]
ReturnBack(d) ==
    IF d = <<>> THEN [value |-> NoValue, fault |-> "back_unwrap"]
    ELSE [value |-> Back(d).value, fault |-> "none"]

\* MaxDetector::current, lines 79-82
CurrentFront(d) == IF d = <<>> THEN None ELSE Some(Front(d).value)
CurrentOf(d) == IF d = <<>> THEN None ELSE Some(Back(d).value)

\* The whole of MaxDetector::next on the fields (d, bs, ni) with argument v.
\* A panic leaves the fields as the statements before it left them.
NextResult(d, bs, ni, v) ==
    LET e == ExpireBack(d, ni)
        i == InsertValue(e.deque, ni, v)
        a == AdvanceIndex(ni, bs)
        r == ReturnBack(i.deque)
        removed == e.removed + i.removed
    IN  IF i.fault # "none" THEN
            [deque |-> i.deque, next_index |-> ni, ret |-> NoValue,
             fault |-> i.fault, pushed |-> i.pushed, removed |-> removed]
        ELSE IF a.fault # "none" THEN
            [deque |-> i.deque, next_index |-> ni, ret |-> NoValue,
             fault |-> a.fault, pushed |-> i.pushed, removed |-> removed]
        ELSE
            [deque |-> i.deque, next_index |-> a.index, ret |-> r.value,
             fault |-> r.fault, pushed |-> i.pushed, removed |-> removed]

\* ---- the state machine ----
Init ==
    \E n \in 0..MaxBuf :
        /\ deque = new(n).deque
        /\ buffer_size = new(n).buffer_size
        /\ next_index = new(n).next_index
        /\ ret = NoValue
        /\ cur = None
        /\ fault = "none"
        /\ hist = <<>>
        /\ pushes = 0
        /\ pops = 0
        /\ currents = 0

\* A call of next with a value of key k; its tag is the number of the call.
next(k) ==
    /\ Len(hist) < MaxCalls
    /\ LET v == [key |-> k, tag |-> Len(hist) + 1]
           r == NextResult(deque, buffer_size, next_index, v)
       IN  /\ deque' = r.deque
           /\ next_index' = r.next_index
           /\ ret' = r.ret
           /\ fault' = r.fault
           /\ hist' = Append(hist, v)
           /\ pushes' = pushes + r.pushed
           /\ pops' = pops + r.removed
    /\ currents' = 0
    /\ UNCHANGED <<buffer_size, cur>>

\* A call of current that also removes the back.
currentPopping ==
    /\ currents < MaxCurrents
    /\ cur' = CurrentOf(deque)
    /\ deque' = IF deque = <<>> THEN deque ELSE PopBack(deque)
    /\ currents' = currents + 1
    /\ UNCHANGED <<buffer_size, next_index, ret, fault, hist, pushes, pops>>

\* A call of current.
current ==
    /\ currents < MaxCurrents
    /\ cur' = CurrentOf(deque)
    /\ currents' = currents + 1
    /\ UNCHANGED <<deque, buffer_size, next_index, ret, fault, hist, pushes, pops>>

Next ==
    \/ \E k \in 1..MaxKey : next(k)
    \/ current

Spec == Init /\ [][Next]_vars

\* ---- naive recomputation over the history ----
count == Len(hist)
Min(a, b) == IF a < b THEN a ELSE b
\* the arrivals in the window after count calls: the last min(count, n) of them
Window(h, n) == { h[j] : j \in (Len(h) - Min(Len(h), n) + 1)..Len(h) }
MaxKeyOf(S) == CHOOSE m \in { x.key : x \in S } : \A x \in S : x.key <= m
\* the most recent of the values of S that have the greatest key
NewestMax(S) ==
    CHOOSE x \in S : /\ x.key = MaxKeyOf(S)
                     /\ \A y \in S : y.key = MaxKeyOf(S) => y.tag <= x.tag
DequeValues(d) == { d[j].value : j \in 1..Len(d) }

\* ---- claims ----

\* C1: for buffer_size >= 1 the value returned by the k-th call of next is one
\* of the last min(k, buffer_size) values passed to next and has the greatest
\* key among them, as a rescan of the history computes it.
C1_WindowMax ==
    (buffer_size >= 1 /\ count > 0) =>
        /\ ret \in Window(hist, buffer_size)
        /\ ret.key = MaxKeyOf(Window(hist, buffer_size))
\* the window has slid past the first arrival, which was greater than the maximum now
C1_Witness ==
    /\ buffer_size >= 2
    /\ count >= buffer_size + 2
    /\ ret.tag < count
    /\ ret.key < hist[1].key
    /\ ret.key = MaxKeyOf(Window(hist, buffer_size))

\* C2: current returns None exactly when next was never called; after a call
\* of next it returns Some of the value at the back of the deque, which is the
\* value the last call of next returned.
C2_Current ==
    currents > 0 =>
        /\ (cur = None) <=> (count = 0)
        /\ count > 0 => cur = Some(Back(deque).value)
        /\ (count > 0 /\ fault = "none") => cur = Some(ret)
C2_Witness ==
    /\ currents > 0
    /\ count >= 2
    /\ Len(deque) >= 2
    /\ cur = Some(ret)

\* C3: when several values of the window are equal in order and are its
\* maximum, next and current report the most recently pushed of them.
C3_TieNewest ==
    (buffer_size >= 1 /\ count > 0) =>
        /\ ret = NewestMax(Window(hist, buffer_size))
        /\ currents > 0 => cur = Some(NewestMax(Window(hist, buffer_size)))
\* two arrivals of the window tie for the maximum and the older was pushed first
C3_Witness ==
    /\ buffer_size >= 2
    /\ count >= 2
    /\ currents > 0
    /\ \E x \in Window(hist, buffer_size) :
          /\ x.key = ret.key
          /\ x.tag < ret.tag
    /\ ret = NewestMax(Window(hist, buffer_size))

\* C4: a call of current leaves deque, buffer_size and next_index unchanged,
\* and a call that follows another call of current returns the same result.
C4_CurrentPure ==
    [][ (currents' = currents + 1) =>
            /\ deque' = deque
            /\ buffer_size' = buffer_size
            /\ next_index' = next_index
            /\ (currents > 0 => cur' = cur) ]_vars
C4_Witness ==
    /\ currents >= 2
    /\ count >= 1
    /\ cur = Some(Back(deque).value)

\* C5: for buffer_size >= 1 the deque never holds more than buffer_size elements.
C5_BoundedQueue ==
    buffer_size >= 1 => Len(deque) <= buffer_size
\* the deque is full after more arrivals than the window holds
C5_Witness ==
    /\ buffer_size >= 2
    /\ count > buffer_size
    /\ Len(deque) = buffer_size

\* C6: for buffer_size >= 1 no call of next panics: no unwrap meets an empty
\* deque and the loop that pops the front stops before the deque is drained.
C6_NoFault ==
    buffer_size >= 1 => fault = "none"
\* the last call ran the loop, which popped the previous arrival and stopped
C6_Witness ==
    /\ buffer_size >= 2
    /\ count >= 3
    /\ fault = "none"
    /\ Len(deque) >= 2
    /\ Front(deque).value.tag = count
    /\ hist[count - 1].key <= hist[count].key

\* C7: new(0) yields no tracker on which next can be called, so next is only
\* ever called with buffer_size >= 1.
C7_ZeroRejected ==
    count > 0 => buffer_size >= 1

\* C8: with buffer_size = 0 every call of next panics at the modulo of line 73
\* and not before: the new element has been inserted and is alone in the deque,
\* and next_index is still 0.
C8_ZeroFaultsAtModulo ==
    (buffer_size = 0 /\ count > 0) =>
        /\ fault = "rem_zero"
        /\ deque = <<BufferElement(0, hist[count])>>
        /\ next_index = 0
C8_Witness ==
    /\ buffer_size = 0
    /\ count >= 2
    /\ fault = "rem_zero"
    /\ pops >= 1

\* C9: after M calls of next exactly M elements were inserted and at most M
\* were removed; an element is in the deque at most once, so it is removed at
\* most once.
C9_AmortizedWork ==
    /\ pushes = count
    /\ pops <= count
    /\ pops + Len(deque) = pushes
    /\ \A i, j \in 1..Len(deque) : deque[i].value.tag = deque[j].value.tag => i = j
\* every element but the last was removed, by expiry, by clear and by the loop
C9_Witness ==
    /\ buffer_size >= 2
    /\ count >= 4
    /\ pops = count - 1
    /\ \E j \in 2..count : hist[j].key < hist[j - 1].key
    /\ \E j \in 2..count : hist[j].key > hist[j - 1].key

\* C10: a call of next made while the back of the deque holds the slot about to
\* be reused finds there the arrival of buffer_size calls earlier, removes it,
\* and returns the greatest of the buffer_size - 1 arrivals after it and the
\* new value; the expired arrival is not in the deque and is not returned.
C10_ExpiryOfMax ==
    [][ ( /\ buffer_size >= 1
          /\ Len(hist') = Len(hist) + 1
          /\ deque # <<>>
          /\ Back(deque).index = next_index ) =>
            /\ Back(deque).value.tag = Len(hist) + 1 - buffer_size
            /\ Back(deque).value \notin DequeValues(deque')
            /\ Back(deque).value \notin Window(hist', buffer_size)
            /\ ret' # Back(deque).value
            /\ ret' = NewestMax(Window(hist', buffer_size)) ]_vars
\* the arrival of buffer_size calls ago was greater than all after it and has expired
C10_Witness ==
    /\ buffer_size >= 2
    /\ count > buffer_size
    /\ \A x \in Window(hist, buffer_size) : x.key < hist[count - buffer_size].key
    /\ ret.key < hist[count - buffer_size].key
    /\ Len(deque) < buffer_size + 1

\* the history is strictly increasing / strictly decreasing in the order
StrictlyAscending(h) == \A j \in 2..Len(h) : h[j - 1].key < h[j].key
StrictlyDescending(h) == \A j \in 2..Len(h) : h[j - 1].key > h[j].key

\* C11: while a strictly increasing sequence no longer than buffer_size is fed,
\* every call of next returns the value just passed to it.
C11_Ascending ==
    (count > 0 /\ buffer_size >= count /\ StrictlyAscending(hist)) =>
        ret = hist[count]
C11_Witness ==
    /\ count >= 3
    /\ buffer_size >= count
    /\ StrictlyAscending(hist)
    /\ ret = hist[count]
    /\ deque = <<BufferElement(count - 1, hist[count])>>

\* C12: while a strictly decreasing sequence no longer than buffer_size is fed,
\* every call of next returns the first value of the sequence.
C12_Descending ==
    (count > 0 /\ buffer_size >= count /\ StrictlyDescending(hist)) =>
        ret = hist[1]
C12_Witness ==
    /\ count >= 3
    /\ buffer_size >= count
    /\ StrictlyDescending(hist)
    /\ ret = hist[1]
    /\ Len(deque) = count

\* C13 as stated: the values of the deque never increase from front to back.
C13_NonIncreasingFrontToBack ==
    \A i, j \in 1..Len(deque) : i < j => deque[i].value.key >= deque[j].value.key

\* C13 amended: the values of the deque never decrease from front to back
\* (the smallest candidate is at the front, the maximum at the back), in
\* every reachable state and so after every call of next.
C13_NonDecreasingFrontToBack ==
    \A i, j \in 1..Len(deque) : i < j => deque[i].value.key <= deque[j].value.key
\* three candidates of different value are queued, the newest at the front
C13_Witness ==
    /\ Len(deque) >= 3
    /\ count >= 4
    /\ Front(deque).value.key < Back(deque).value.key
    /\ Front(deque).value.tag = count

\* C14: for buffer_size >= 1, whenever next may be called, every queued
\* element is one of the last buffer_size arrivals and none but the back holds
\* the slot next_index; so popping the back alone removes whatever leaves the
\* window, and expiry removes at most one element per call.
C14_OnlyBackCanExpire ==
    buffer_size >= 1 =>
        \A i \in 1..Len(deque) :
            /\ deque[i].value.tag > count - buffer_size
            /\ i < Len(deque) => deque[i].index # next_index
            /\ deque[i].index = next_index =>
                   ExpireBack(deque, next_index) =
                       [deque |-> PopBack(deque), removed |-> 1]
\* the back is about to expire while other candidates are queued in front of it
C14_Witness ==
    /\ buffer_size >= 2
    /\ count >= buffer_size
    /\ Len(deque) >= 2
    /\ Back(deque).index = next_index
    /\ Back(deque).value.tag = count - buffer_size + 1

\* the arrivals of the window that are strictly greater than every later arrival
Candidates(h, n) ==
    { x \in Window(h, n) : \A j \in (x.tag + 1)..Len(h) : h[j].key < x.key }

\* C15: for buffer_size >= 1, after every call of next the deque holds exactly
\* the arrivals of the window that are strictly greater than every arrival
\* after them: none outside the window, none dominated, none missing.
C15_ExactlyCandidates ==
    (buffer_size >= 1 /\ count > 0) =>
        /\ DequeValues(deque) = Candidates(hist, buffer_size)
        /\ Len(deque) = Cardinality(Candidates(hist, buffer_size))
\* some arrival of the window is dominated and some arrival has expired
C15_Witness ==
    /\ buffer_size >= 2
    /\ count > buffer_size
    /\ Len(deque) >= 2
    /\ Cardinality(Window(hist, buffer_size)) > Len(deque)
    /\ hist[count - buffer_size].key > Back(deque).value.key
    /\ DequeValues(deque) = Candidates(hist, buffer_size)

\* C16: in a call of next, if the deque is non-empty after the expiry step and
\* the new value is >= the value at its back, then afterwards the deque holds
\* the new element alone and next returns the new value.
C16_DominatingArrival ==
    [][ ( /\ Len(hist') = Len(hist) + 1
          /\ ExpireBack(deque, next_index).deque # <<>>
          /\ Ge(hist'[Len(hist')], Back(ExpireBack(deque, next_index).deque).value) ) =>
            /\ deque' = <<BufferElement(next_index, hist'[Len(hist')])>>
            /\ ret' = hist'[Len(hist')]
            /\ fault' = "none" ]_vars
\* the last call met two unexpired candidates and cleared them
C16_Witness ==
    /\ buffer_size >= 3
    /\ count >= 3
    /\ hist[count - 2].key > hist[count - 1].key
    /\ hist[count].key >= hist[count - 2].key
    /\ deque = <<BufferElement((count - 1) % buffer_size, hist[count])>>
    /\ ret = hist[count]

\* the elements of d whose value is strictly greater than v, in the order of d
KeepGreater(d, v) == SelectSeq(d, LAMBDA x : x.value.key > v.key)

\* C17: in a call of next, if after the expiry step the new value is strictly
\* smaller than the value at the back, then next removes exactly the queued
\* elements whose value is <= the new value, all of them at the front, pushes
\* the new element at the front, keeps every other element in place and in
\* order, and returns the value of the back, which is unchanged.
C17_NonDominatingArrival ==
    [][ ( /\ Len(hist') = Len(hist) + 1
          /\ ExpireBack(deque, next_index).deque # <<>>
          /\ hist'[Len(hist')].key < Back(ExpireBack(deque, next_index).deque).value.key ) =>
            LET e == ExpireBack(deque, next_index).deque
                v == hist'[Len(hist')]
                kept == KeepGreater(e, v)
            IN  /\ deque' = PushFront(kept, BufferElement(next_index, v))
                /\ kept = SubSeq(e, Len(e) - Len(kept) + 1, Len(e))
                /\ Back(deque') = Back(e)
                /\ ret' = Back(e).value
                /\ fault' = "none" ]_vars
\* the last call popped the previous arrival from the front and kept two older ones
C17_Witness ==
    /\ buffer_size >= 3
    /\ count >= 4
    /\ Len(deque) >= 3
    /\ Front(deque).value.tag = count
    /\ hist[count - 1].key <= hist[count].key
    /\ ret = Back(deque).value
    /\ ret.key > hist[count].key

\* C18: for buffer_size >= 1, after k calls of next next_index is k mod
\* buffer_size, the element inserted by call k carries slot (k - 1) mod
\* buffer_size, and each call moves next_index by one modulo buffer_size
\* whichever branch inserted the element.
C18_CyclicSlots ==
    [][ buffer_size >= 1 =>
          /\ next_index = count % buffer_size
          /\ next_index \in 0..(buffer_size - 1)
          /\ \A i \in 1..Len(deque) :
                deque[i].index = (deque[i].value.tag - 1) % buffer_size
          /\ (Len(hist') = Len(hist) + 1) =>
                /\ next_index' = (next_index + 1) % buffer_size
                /\ \E i \in 1..Len(deque') :
                      deque'[i] = BufferElement((Len(hist') - 1) % buffer_size,
                                                hist'[Len(hist')]) ]_vars
\* next_index has wrapped round more than once and candidates of two rounds are queued
C18_Witness ==
    /\ buffer_size >= 2
    /\ count > 2 * buffer_size
    /\ next_index = count % buffer_size
    /\ Len(deque) >= 2
    /\ Front(deque).index < Back(deque).index

\* C19: the deque is empty in the state new produces and, for buffer_size >= 1,
\* in no state after a call of next: there it holds the element the most
\* recent call pushed.
C19_EmptyOnlyAtStart ==
    /\ count = 0 => deque = <<>>
    /\ (count > 0 /\ buffer_size >= 1) =>
          /\ deque # <<>>
          /\ \E i \in 1..Len(deque) : deque[i].value = hist[count]
\* with a window of one the expiry step empties the deque in every call, and
\* the call refills it, here with a value smaller than the one expired
C19_Witness ==
    /\ buffer_size = 1
    /\ count >= 2
    /\ deque = <<BufferElement(0, hist[count])>>
    /\ hist[count].key < hist[count - 1].key
    /\ pops = count - 1

\* C20: for buffer_size >= 1 the values of the deque strictly increase from
\* front to back and its elements are in arrival order, newest at the front and
\* oldest at the back; so the back is both the largest and the oldest element.
C20_SortedByValueAndAge ==
    buffer_size >= 1 =>
        /\ \A i, j \in 1..Len(deque) : i < j =>
              /\ deque[i].value.key < deque[j].value.key
              /\ deque[i].value.tag > deque[j].value.tag
        /\ \A i \in 1..Len(deque) :
              /\ deque[i].value.key <= Back(deque).value.key
              /\ deque[i].value.tag >= Back(deque).value.tag
C20_Witness ==
    /\ buffer_size >= 3
    /\ count > buffer_size
    /\ Len(deque) = 3
    /\ deque[1].value.key < deque[2].value.key
    /\ deque[2].value.key < deque[3].value.key
    /\ deque[1].value.tag = count
    /\ deque[3].value.tag = count - 2

====
